---- MODULE Spec2Model ----
(***************************************************************************)
(* Job queue and demo worker of src/master.py (lines 131-200, 487-492).    *)
(*                                                                         *)
(* The jobs table is a sequence of rows in insertion (rowid) order.  Each  *)
(* browser session re-runs the script top to bottom; st.session_state is   *)
(* per session.  A worker thread executes _demo_worker_loop one statement  *)
(* group at a time; every database statement and the task invocation are   *)
(* separate steps, so that other threads may interleave between them.      *)
(*                                                                         *)
(* Each SQL statement with its commit takes effect as one step.  The       *)
(* project_id column is never read by the queue and is left out.  uuid4    *)
(* values are taken from a counter, so ids are fresh; the wall clock does  *)
(* not run backwards.                                                      *)
(*                                                                         *)
(* A database statement of the worker may raise (sqlite3.OperationalError) *)
(* without effect; the server process may die and be started again, which  *)
(* keeps the database file and nothing else; get_job and update_job_status *)
(* may be called directly.  Each of these is part of a specification of    *)
(* its own (FairStore, SpecCrash, SpecApi), next to the one of all         *)
(* sessions (Spec) and the one of a single session (SpecSingle).           *)
(*                                                                         *)
(* Python values are sequences of strings (<<"None">>, <<"dict", k, v>>,   *)
(* <<"set", x>>); JSON text is a sequence of tokens; the SQL NULL is the   *)
(* one-token text <<"NULL">>.  Timestamps are the text produced by         *)
(* datetime.isoformat() and are compared as text, as SQLite does.          *)
(***************************************************************************)
EXTENDS Naturals, Sequences, FiniteSets

\* ------------------------------------------------------------------ bounds

MaxSessions == 2

MaxJobs == 2

MaxClock == 2

TicksPerSecond == 2

Sessions == 1..MaxSessions

\* ------------------------------------------------------- values and text

SqlNull == <<"NULL">>

PyNone == <<"None">>

EmptyDict == <<"dict">>

DictX1 == <<"dict", "x", "1">>

PySet == <<"set", "x">>

Payloads == {EmptyDict, DictX1}

\* Python truthiness of a value: None and the empty dict are false.
Truthy(v) == v # PyNone /\ v # EmptyDict

\* json.dumps raises TypeError on a value that is not JSON serializable.
CanDump(v) == v[1] \in {"None", "dict"}

RECURSIVE DumpItems(_)
DumpItems(items) ==
    IF Len(items) < 2 THEN <<>>
    ELSE <<items[1], ":", items[2]>>
         \o (IF Len(items) > 2
             THEN <<",">> \o DumpItems(SubSeq(items, 3, Len(items)))
             ELSE <<>>)

JsonDumps(v) ==
    IF v[1] = "None" THEN <<"null">>
    ELSE <<"{">> \o DumpItems(Tail(v)) \o <<"}">>

RECURSIVE LoadItems(_)
LoadItems(toks) ==
    IF Len(toks) < 3 THEN <<>>
    ELSE <<toks[1], toks[3]>>
         \o (IF Len(toks) > 4
             THEN LoadItems(SubSeq(toks, 5, Len(toks)))
             ELSE <<>>)

JsonLoads(t) ==
    IF t = <<"null">> THEN PyNone
    ELSE <<"dict">> \o LoadItems(SubSeq(t, 2, Len(t) - 1))

\* {"error": str(e)}
ErrorDict(msg) == <<"dict", "error", msg>>

\* The column value update_job_status binds for `result`:
\* json.dumps(result) if result else None.
ResultColumn(result) == IF Truthy(result) THEN JsonDumps(result) ELSE SqlNull

\* datetime.isoformat(): the fractional part is omitted when it is zero.
IsoFormat(t) ==
    IF t % TicksPerSecond = 0
    THEN <<t \div TicksPerSecond>>
    ELSE <<t \div TicksPerSecond, t % TicksPerSecond>>

\* Text comparison (memcmp order): a proper prefix sorts first.
RECURSIVE TextLess(_, _)
TextLess(a, b) ==
    IF b = <<>> THEN FALSE
    ELSE IF a = <<>> THEN TRUE
    ELSE IF a[1] # b[1] THEN a[1] < b[1]
    ELSE TextLess(Tail(a), Tail(b))

\* ---------------------------------------------------------- task modules

TaskKeys ==
    {"echo", "missing_task", "div_zero", "no_entry", "make_set", "tasks.task_1"}

\* The enqueue calls considered: every task key with the empty payload, and
\* the echo task with a non-empty one.
Requests == {<<k, EmptyDict>> : k \in TaskKeys} \cup {<<"echo", DictX1>>}

\* What importlib.import_module(task_key) finds: whether a module exists and
\* what its run_task / run attributes do ("absent" when not defined).
TaskModule(task_key) ==
    CASE task_key = "echo" ->
           [exists |-> TRUE, run_task |-> "echo", run |-> "absent"]
      [] task_key = "div_zero" ->
           [exists |-> TRUE, run_task |-> "zero_div", run |-> "absent"]
      [] task_key = "no_entry" ->
           [exists |-> TRUE, run_task |-> "absent", run |-> "absent"]
      [] task_key = "make_set" ->
           [exists |-> TRUE, run_task |-> "set", run |-> "absent"]
      [] task_key = "tasks.task_1" ->
           [exists |-> TRUE, run_task |-> "absent", run |-> "no_params"]
      [] OTHER ->
           [exists |-> FALSE, run_task |-> "absent", run |-> "absent"]

\* Calling an entry point with one positional argument.
Call(fn, payload) ==
    CASE fn = "echo" -> [raised |-> FALSE, value |-> payload]
      [] fn = "set" -> [raised |-> FALSE, value |-> PySet]
      [] fn = "zero_div" -> [raised |-> TRUE, value |-> <<"division by zero">>]
      [] OTHER -> [raised |-> TRUE, value |-> <<"run() takes 0 positional arguments">>]

\* Lines 176-186: import the module and dispatch to run_task, run, or the
\* "missing" result.
RunTask(task_key, payload) ==
    LET m == TaskModule(task_key) IN
    IF ~m.exists THEN [raised |-> TRUE, value |-> <<"No module named">>]
    ELSE IF m.run_task # "absent" THEN Call(m.run_task, payload)
    ELSE IF m.run # "absent" THEN Call(m.run, payload)
    ELSE [raised |-> FALSE,
          value |-> ErrorDict("task module missing run_task / run")]

\* ------------------------------------------------------------------ state

VARIABLES
    jobs,               \* the jobs table: rows in insertion order
    clock,              \* the wall clock read by datetime.utcnow()
    next_uuid,          \* the next value uuid.uuid4() hands out
    worker_thread,      \* per session: "worker_thread" in st.session_state
    worker_stop_event,  \* per session: "absent", "clear" or "set"
    wpc,                \* per session: position of its worker thread
    job,                \* per worker: the local `job` (the selected row)
    result,             \* per worker: the local `result`
    exc,                \* per worker: the caught exception `e` (its str)
    spc,                \* per session: position of the running script
    enq,                \* per session: locals of enqueue_job
    started,            \* history: number of Thread.start() calls
    running_writes,     \* history: per job id, the number of 'running' writes
    invoked,            \* history: per job id, the number of task invocations
    store_failures,     \* history: number of database statements that raised
    api                 \* what the last direct call of get_job or
                        \* update_job_status handed to its caller

vars ==
    <<jobs, clock, next_uuid, worker_thread, worker_stop_event, wpc, job,
      result, exc, spc, enq, started, running_writes, invoked,
      store_failures, api>>

NoRow ==
    [id |-> 0, task_key |-> "", status |-> "", payload |-> SqlNull,
     result |-> SqlNull, created_at |-> <<>>, updated_at |-> <<>>]

NoEnq == [job_id |-> 0, now |-> 0, task_key |-> "", payload |-> PyNone]

NoValue == <<>>

\* What a call hands to its caller when it returns None: `dict` is the
\* returned row when it does not.
ReturnsNone == [is_none |-> TRUE, dict |-> NoRow]

\* No direct call has returned yet.  `raised` names the exception the call
\* ended with ("" when it returned).
NoCall == [op |-> "", job_id |-> 0, raised |-> "", value |-> ReturnsNone]

Init ==
    /\ jobs = <<>>
    /\ clock = 0
    /\ next_uuid = 1
    /\ worker_thread = [s \in Sessions |-> FALSE]
    /\ worker_stop_event = [s \in Sessions |-> "absent"]
    /\ wpc = [s \in Sessions |-> "none"]
    /\ job = [s \in Sessions |-> NoRow]
    /\ result = [s \in Sessions |-> NoValue]
    /\ exc = [s \in Sessions |-> NoValue]
    /\ spc = [s \in Sessions |-> "idle"]
    /\ enq = [s \in Sessions |-> NoEnq]
    /\ started = 0
    /\ running_writes = [i \in 1..MaxJobs |-> 0]
    /\ invoked = [i \in 1..MaxJobs |-> 0]
    /\ store_failures = 0
    /\ api = NoCall

\* datetime.utcnow(): the clock has stood still or advanced since the last
\* reading.
UtcNow == {clock} \cup (IF clock < MaxClock THEN {clock + 1} ELSE {})

\* ------------------------------------------------------------- job store

\* Variant: the statement is UPDATE jobs SET status = ?, result = ? ...;
\* updated_at is not written.
update_job_status_NoStamp(rows, job_id, status, res, now) ==
    [i \in DOMAIN rows |->
        IF rows[i].id = job_id
        THEN [rows[i] EXCEPT !.status = status,
                             !.result = ResultColumn(res)]
        ELSE rows[i]]

\* Variant: the statement is REPLACE INTO jobs (...): the matching row is
\* written anew, created_at included.
update_job_status_Replace(rows, job_id, status, res, now) ==
    [i \in DOMAIN rows |->
        IF rows[i].id = job_id
        THEN [rows[i] EXCEPT !.status = status,
                             !.created_at = IsoFormat(now),
                             !.updated_at = IsoFormat(now),
                             !.result = ResultColumn(res)]
        ELSE rows[i]]

\* UPDATE jobs SET status = ?, updated_at = ?, result = ? WHERE id = ?
\* (no row matches an unknown id: nothing changes and nothing is raised).
update_job_status(rows, job_id, status, res, now) ==
    [i \in DOMAIN rows |->
        IF rows[i].id = job_id
        THEN [rows[i] EXCEPT !.status = status,
                             !.updated_at = IsoFormat(now),
                             !.result = ResultColumn(res)]
        ELSE rows[i]]

\* Variant: the query also returns failed rows (WHERE status IN ('queued',
\* 'failed')), as a retrying worker would.
SelectQueued_Retry(rows) ==
    {i \in DOMAIN rows :
        /\ rows[i].status \in {"queued", "failed"}
        /\ \A k \in DOMAIN rows :
              rows[k].status \in {"queued", "failed"}
                  => ~TextLess(rows[k].created_at, rows[i].created_at)}

\* Variant: a recovering worker; the query also returns rows left running
\* (WHERE status IN ('queued', 'running')).
SelectQueued_Recover(rows) ==
    {i \in DOMAIN rows :
        /\ rows[i].status \in {"queued", "running"}
        /\ \A k \in DOMAIN rows :
              rows[k].status \in {"queued", "running"}
                  => ~TextLess(rows[k].created_at, rows[i].created_at)}

\* SELECT * FROM jobs WHERE status = 'queued' ORDER BY created_at LIMIT 1:
\* the rows the statement may return (any row of least created_at).
SelectQueued(rows) ==
    {i \in DOMAIN rows :
        /\ rows[i].status = "queued"
        /\ \A k \in DOMAIN rows :
              rows[k].status = "queued"
                  => ~TextLess(rows[k].created_at, rows[i].created_at)}

\* ---------------------------------------------------------------- script

\* Variant: the start block also replaces a thread that has ended
\* (`or not st.session_state["worker_thread"].is_alive()`).
StartBlock_Restart(s) ==
    IF ~worker_thread[s] \/ wpc[s] = "exited"
    THEN /\ wpc' = [wpc EXCEPT ![s] = "loop"]
         /\ worker_thread' = [worker_thread EXCEPT ![s] = TRUE]
         /\ started' = started + 1
    ELSE UNCHANGED <<wpc, worker_thread, started>>

\* Lines 196-200, which every script run of session s executes first: start
\* a worker thread unless this session's state already holds one.
StartBlock(s) ==
    IF ~worker_thread[s]
    THEN /\ wpc' = [wpc EXCEPT ![s] = "loop"]
         /\ worker_thread' = [worker_thread EXCEPT ![s] = TRUE]
         /\ started' = started + 1
    ELSE UNCHANGED <<wpc, worker_thread, started>>

\* Line 197: the session's stop event once the start block has run (a fresh,
\* clear Event when the thread is started, the existing one otherwise).
StartedEvent(s) == IF ~worker_thread[s] THEN "clear" ELSE worker_stop_event[s]

\* A script run in which no button of the queue is pressed.
ScriptRun(s) ==
    /\ spc[s] = "idle"
    /\ StartBlock(s)
    /\ worker_stop_event' = [worker_stop_event EXCEPT ![s] = StartedEvent(s)]
    /\ UNCHANGED <<jobs, clock, next_uuid, job, result, exc, spc, enq,
                   running_writes, invoked, store_failures, api>>

\* A script run whose Enqueue button is pressed (line 368), up to
\* enqueue_job lines 138-139: the id and the timestamp are taken first.
EnqueueBegin(s, task_key, payload) ==
    /\ spc[s] = "idle"
    /\ next_uuid <= MaxJobs
    /\ StartBlock(s)
    /\ worker_stop_event' = [worker_stop_event EXCEPT ![s] = StartedEvent(s)]
    /\ \E now \in UtcNow :
          /\ clock' = now
          /\ enq' = [enq EXCEPT ![s] =
                        [job_id |-> next_uuid, now |-> now,
                         task_key |-> task_key, payload |-> payload]]
    /\ next_uuid' = next_uuid + 1
    /\ spc' = [spc EXCEPT ![s] = "insert"]
    /\ UNCHANGED <<jobs, job, result, exc, running_writes, invoked,
                   store_failures, api>>

\* Line 145: the dictionary enqueue_job returns.
Handle(s) == [id |-> enq[s].job_id, status |-> "queued"]

\* Variant: enqueue_job coalesces requests; no row is inserted while a
\* queued row of the same task_key exists.
EnqueueInsert_Coalesce(s) ==
    /\ spc[s] = "insert"
    /\ jobs' = IF \E i \in DOMAIN jobs :
                     /\ jobs[i].task_key = enq[s].task_key
                     /\ jobs[i].status = "queued"
               THEN jobs
               ELSE Append(jobs,
                      [id |-> enq[s].job_id,
                       task_key |-> enq[s].task_key,
                       status |-> "queued",
                       payload |-> JsonDumps(enq[s].payload),
                       result |-> SqlNull,
                       created_at |-> IsoFormat(enq[s].now),
                       updated_at |-> IsoFormat(enq[s].now)])
    /\ enq' = [enq EXCEPT ![s] = NoEnq]
    /\ spc' = [spc EXCEPT ![s] = "idle"]
    /\ UNCHANGED <<clock, next_uuid, worker_thread, worker_stop_event, wpc,
                   job, result, exc, started, running_writes, invoked,
                   store_failures, api>>

\* enqueue_job, lines 140-145: INSERT and commit; the run ends.
EnqueueInsert(s) ==
    /\ spc[s] = "insert"
    /\ jobs' = Append(jobs,
                  [id |-> enq[s].job_id,
                   task_key |-> enq[s].task_key,
                   status |-> "queued",
                   payload |-> JsonDumps(enq[s].payload),
                   result |-> SqlNull,
                   created_at |-> IsoFormat(enq[s].now),
                   updated_at |-> IsoFormat(enq[s].now)])
    /\ enq' = [enq EXCEPT ![s] = NoEnq]
    /\ spc' = [spc EXCEPT ![s] = "idle"]
    /\ UNCHANGED <<clock, next_uuid, worker_thread, worker_stop_event, wpc,
                   job, result, exc, started, running_writes, invoked,
                   store_failures, api>>

\* A script run whose stop button is pressed: lines 487-491.
StopWorker(s) ==
    /\ spc[s] = "idle"
    /\ StartBlock(s)
    /\ worker_stop_event' = [worker_stop_event EXCEPT ![s] = "set"]
    /\ UNCHANGED <<jobs, clock, next_uuid, job, result, exc, spc, enq,
                   running_writes, invoked, store_failures, api>>

\* ---------------------------------------------------------------- worker

\* Line 165: the loop ends once the stop event is set.
WorkerExit(s) ==
    /\ wpc[s] = "loop"
    /\ worker_stop_event[s] = "set"
    /\ wpc' = [wpc EXCEPT ![s] = "exited"]
    /\ UNCHANGED <<jobs, clock, next_uuid, worker_thread, worker_stop_event,
                   job, result, exc, spc, enq, started, running_writes,
                   invoked, store_failures, api>>

\* Variant: the loop test is `while True`; the stop event is never read.
WorkerSelect_IgnoreStop(s) ==
    /\ wpc[s] = "loop"
    /\ IF SelectQueued(jobs) = {}
       THEN UNCHANGED <<wpc, job>>
       ELSE \E i \in SelectQueued(jobs) :
               /\ job' = [job EXCEPT ![s] = jobs[i]]
               /\ wpc' = [wpc EXCEPT ![s] = "claim"]
    /\ UNCHANGED <<jobs, clock, next_uuid, worker_thread, worker_stop_event,
                   result, exc, spc, enq, started, running_writes, invoked,
                   store_failures, api>>

\* Lines 165-172 and 190-191: the stop event is clear; select the oldest
\* queued row.  With no such row the thread sleeps JOB_POLL_INTERVAL and is
\* back at the loop test.
WorkerSelect(s) ==
    /\ wpc[s] = "loop"
    /\ worker_stop_event[s] # "set"
    /\ IF SelectQueued(jobs) = {}
       THEN UNCHANGED <<wpc, job>>
       ELSE \E i \in SelectQueued(jobs) :
               /\ job' = [job EXCEPT ![s] = jobs[i]]
               /\ wpc' = [wpc EXCEPT ![s] = "claim"]
    /\ UNCHANGED <<jobs, clock, next_uuid, worker_thread, worker_stop_event,
                   result, exc, spc, enq, started, running_writes, invoked,
                   store_failures, api>>

\* Line 173: update_job_status(job_id, "running").
WorkerClaim(s) ==
    /\ wpc[s] = "claim"
    /\ \E now \in UtcNow :
          /\ clock' = now
          /\ jobs' = update_job_status(jobs, job[s].id, "running", PyNone, now)
    /\ running_writes' =
          [running_writes EXCEPT ![job[s].id] = running_writes[job[s].id] + 1]
    /\ wpc' = [wpc EXCEPT ![s] = "invoke"]
    /\ UNCHANGED <<next_uuid, worker_thread, worker_stop_event, job, result,
                   exc, spc, enq, started, invoked, store_failures, api>>

\* Lines 175-186: parse the payload, import the module, invoke the task.
WorkerInvoke(s) ==
    /\ wpc[s] = "invoke"
    /\ LET payload == IF job[s].payload # SqlNull
                      THEN JsonLoads(job[s].payload)
                      ELSE EmptyDict
           out == RunTask(job[s].task_key, payload)
       IN IF out.raised
          THEN /\ exc' = [exc EXCEPT ![s] = out.value]
               /\ result' = result
               /\ wpc' = [wpc EXCEPT ![s] = "write_failed"]
          ELSE /\ result' = [result EXCEPT ![s] = out.value]
               /\ exc' = exc
               /\ wpc' = [wpc EXCEPT ![s] = "write_done"]
    /\ invoked' = [invoked EXCEPT ![job[s].id] = invoked[job[s].id] + 1]
    /\ UNCHANGED <<jobs, clock, next_uuid, worker_thread, worker_stop_event,
                   job, spc, enq, started, running_writes, store_failures,
                   api>>

\* Line 187: update_job_status(job_id, "done", result); json.dumps raising
\* TypeError is caught by the handler of line 188.
WorkerWriteDone(s) ==
    /\ wpc[s] = "write_done"
    /\ \E now \in UtcNow :
          /\ clock' = now
          /\ IF Truthy(result[s]) /\ ~CanDump(result[s])
             THEN /\ exc' = [exc EXCEPT ![s] = <<"not JSON serializable">>]
                  /\ wpc' = [wpc EXCEPT ![s] = "write_failed"]
                  /\ UNCHANGED <<jobs, job>>
             ELSE /\ jobs' = update_job_status(jobs, job[s].id, "done",
                                               result[s], now)
                  /\ wpc' = [wpc EXCEPT ![s] = "loop"]
                  /\ job' = [job EXCEPT ![s] = NoRow]
                  /\ exc' = exc
    /\ result' = [result EXCEPT ![s] = NoValue]
    /\ UNCHANGED <<next_uuid, worker_thread, worker_stop_event, spc, enq,
                   started, running_writes, invoked, store_failures, api>>

\* Variant: the handler of line 188 swallows the exception (`pass`) and
\* records nothing.
WorkerWriteFailed_Swallow(s) ==
    /\ wpc[s] = "write_failed"
    /\ wpc' = [wpc EXCEPT ![s] = "loop"]
    /\ job' = [job EXCEPT ![s] = NoRow]
    /\ exc' = [exc EXCEPT ![s] = NoValue]
    /\ UNCHANGED <<jobs, clock, next_uuid, worker_thread, worker_stop_event,
                   result, spc, enq, started, running_writes, invoked,
                   store_failures, api>>

\* Variant: no handler at line 188; the exception records the failure and
\* then leaves the loop, ending the thread.
WorkerWriteFailed_Crash(s) ==
    /\ wpc[s] = "write_failed"
    /\ \E now \in UtcNow :
          /\ clock' = now
          /\ jobs' = update_job_status(jobs, job[s].id, "failed",
                                       ErrorDict(exc[s][1]), now)
    /\ wpc' = [wpc EXCEPT ![s] = "exited"]
    /\ job' = [job EXCEPT ![s] = NoRow]
    /\ exc' = [exc EXCEPT ![s] = NoValue]
    /\ UNCHANGED <<next_uuid, worker_thread, worker_stop_event, result, spc,
                   enq, started, running_writes, invoked, store_failures,
                   api>>

\* Line 189: update_job_status(job_id, "failed", {"error": str(e)}).
WorkerWriteFailed(s) ==
    /\ wpc[s] = "write_failed"
    /\ \E now \in UtcNow :
          /\ clock' = now
          /\ jobs' = update_job_status(jobs, job[s].id, "failed",
                                       ErrorDict(exc[s][1]), now)
    /\ wpc' = [wpc EXCEPT ![s] = "loop"]
    /\ job' = [job EXCEPT ![s] = NoRow]
    /\ exc' = [exc EXCEPT ![s] = NoValue]
    /\ UNCHANGED <<next_uuid, worker_thread, worker_stop_event, result, spc,
                   enq, started, running_writes, invoked, store_failures,
                   api>>

\* -------------------------------------------------------- store failures

MaxStoreFailures == 1

\* str(e) of the sqlite3.OperationalError a statement raises when the
\* database cannot be read or written; the statement has had no effect.
StoreError == <<"database is locked">>

\* Line 168 raises: the handler of lines 192-193 sleeps JOB_POLL_INTERVAL
\* and the thread is back at the loop test.
WorkerSelectFails(s) ==
    /\ wpc[s] = "loop"
    /\ worker_stop_event[s] # "set"
    /\ store_failures < MaxStoreFailures
    /\ store_failures' = store_failures + 1
    /\ UNCHANGED <<jobs, clock, next_uuid, worker_thread, worker_stop_event,
                   wpc, job, result, exc, spc, enq, started, running_writes,
                   invoked, api>>

\* Line 173 raises (in update_job_status, line 156 or 158): lines 192-193.
WorkerClaimFails(s) ==
    /\ wpc[s] = "claim"
    /\ store_failures < MaxStoreFailures
    /\ store_failures' = store_failures + 1
    /\ \E now \in UtcNow : clock' = now
    /\ wpc' = [wpc EXCEPT ![s] = "loop"]
    /\ job' = [job EXCEPT ![s] = NoRow]
    /\ UNCHANGED <<jobs, next_uuid, worker_thread, worker_stop_event, result,
                   exc, spc, enq, started, running_writes, invoked, api>>

\* Line 187 raises in the database (its arguments, json.dumps included, were
\* evaluated): the handler of line 188 catches the OperationalError.
WorkerWriteDoneFails(s) ==
    /\ wpc[s] = "write_done"
    /\ ~(Truthy(result[s]) /\ ~CanDump(result[s]))
    /\ store_failures < MaxStoreFailures
    /\ store_failures' = store_failures + 1
    /\ \E now \in UtcNow : clock' = now
    /\ exc' = [exc EXCEPT ![s] = StoreError]
    /\ result' = [result EXCEPT ![s] = NoValue]
    /\ wpc' = [wpc EXCEPT ![s] = "write_failed"]
    /\ UNCHANGED <<jobs, next_uuid, worker_thread, worker_stop_event, job,
                   spc, enq, started, running_writes, invoked, api>>

\* Line 189 raises inside the handler of line 188: the exception leaves the
\* inner try statement and is caught at line 192; nothing was written.
WorkerWriteFailedFails(s) ==
    /\ wpc[s] = "write_failed"
    /\ store_failures < MaxStoreFailures
    /\ store_failures' = store_failures + 1
    /\ \E now \in UtcNow : clock' = now
    /\ wpc' = [wpc EXCEPT ![s] = "loop"]
    /\ job' = [job EXCEPT ![s] = NoRow]
    /\ exc' = [exc EXCEPT ![s] = NoValue]
    /\ UNCHANGED <<jobs, next_uuid, worker_thread, worker_stop_event, result,
                   spc, enq, started, running_writes, invoked, api>>

WorkerStoreFails(s) ==
    \/ WorkerSelectFails(s)
    \/ WorkerClaimFails(s)
    \/ WorkerWriteDoneFails(s)
    \/ WorkerWriteFailedFails(s)

\* ------------------------------------------------------ crash and restart

MaxCrashes == 1

\* Variant: on start the program recovers interrupted jobs (UPDATE jobs SET
\* status = 'queued' WHERE status = 'running').
Crash_Requeue ==
    /\ started <= MaxCrashes
    /\ jobs' = [i \in DOMAIN jobs |->
                   IF jobs[i].status = "running"
                   THEN [jobs[i] EXCEPT !.status = "queued"]
                   ELSE jobs[i]]
    /\ worker_thread' = [s \in Sessions |-> FALSE]
    /\ worker_stop_event' = [s \in Sessions |-> "absent"]
    /\ wpc' = [s \in Sessions |-> "none"]
    /\ job' = [s \in Sessions |-> NoRow]
    /\ result' = [s \in Sessions |-> NoValue]
    /\ exc' = [s \in Sessions |-> NoValue]
    /\ spc' = [s \in Sessions |-> "idle"]
    /\ enq' = [s \in Sessions |-> NoEnq]
    /\ api' = NoCall
    /\ UNCHANGED <<clock, next_uuid, started, running_writes, invoked,
                   store_failures>>

\* The server process dies and is started again: the threads and every
\* session state are gone, the database file (line 68) is kept.  The worker
\* thread is a daemon thread (line 198) and ends with the process.
Crash ==
    /\ started <= MaxCrashes
    /\ worker_thread' = [s \in Sessions |-> FALSE]
    /\ worker_stop_event' = [s \in Sessions |-> "absent"]
    /\ wpc' = [s \in Sessions |-> "none"]
    /\ job' = [s \in Sessions |-> NoRow]
    /\ result' = [s \in Sessions |-> NoValue]
    /\ exc' = [s \in Sessions |-> NoValue]
    /\ spc' = [s \in Sessions |-> "idle"]
    /\ enq' = [s \in Sessions |-> NoEnq]
    /\ api' = NoCall
    /\ UNCHANGED <<jobs, clock, next_uuid, started, running_writes, invoked,
                   store_failures>>

\* ------------------------------------------------------------ direct calls

\* An id uuid4 never hands out: no row holds it.
UnknownIds == {MaxJobs + 1}

\* Lines 148-151: SELECT * FROM jobs WHERE id = ?; dict(r) if r else None.
get_job(rows, job_id) ==
    IF \E i \in DOMAIN rows : rows[i].id = job_id
    THEN [is_none |-> FALSE,
          dict |-> rows[CHOOSE i \in DOMAIN rows : rows[i].id = job_id]]
    ELSE ReturnsNone

\* Variant: get_job records the access; the UPDATE stamps updated_at of the
\* row it has read.
GetJob_Touch(job_id) ==
    /\ api' = [op |-> "get_job", job_id |-> job_id, raised |-> "",
               value |-> get_job(jobs, job_id)]
    /\ \E now \in UtcNow :
          /\ clock' = now
          /\ jobs' = [i \in DOMAIN jobs |->
                         IF jobs[i].id = job_id
                         THEN [jobs[i] EXCEPT !.updated_at = IsoFormat(now)]
                         ELSE jobs[i]]
    /\ UNCHANGED <<next_uuid, worker_thread, worker_stop_event, wpc, job,
                   result, exc, spc, enq, started, running_writes, invoked,
                   store_failures>>

\* A call of get_job(job_id) returns.
GetJob(job_id) ==
    /\ api' = [op |-> "get_job", job_id |-> job_id, raised |-> "",
               value |-> get_job(jobs, job_id)]
    /\ UNCHANGED <<jobs, clock, next_uuid, worker_thread, worker_stop_event,
                   wpc, job, result, exc, spc, enq, started, running_writes,
                   invoked, store_failures>>

\* A call of update_job_status(job_id, status, res) from outside the worker
\* returns (the function has no return statement).
UpdateJobStatus(job_id, status, res) ==
    /\ \E now \in UtcNow :
          /\ clock' = now
          /\ jobs' = update_job_status(jobs, job_id, status, res, now)
    /\ api' = [op |-> "update_job_status", job_id |-> job_id,
               raised |-> "", value |-> ReturnsNone]
    /\ UNCHANGED <<next_uuid, worker_thread, worker_stop_event, wpc, job,
                   result, exc, spc, enq, started, running_writes, invoked,
                   store_failures>>

\* ------------------------------------------------------ specifications

WorkerStep(s) ==
    \/ WorkerExit(s)
    \/ WorkerSelect(s)
    \/ WorkerClaim(s)
    \/ WorkerInvoke(s)
    \/ WorkerWriteDone(s)
    \/ WorkerWriteFailed(s)

ScriptStep(s) ==
    \/ ScriptRun(s)
    \/ \E r \in Requests : EnqueueBegin(s, r[1], r[2])
    \/ EnqueueInsert(s)
    \/ StopWorker(s)

\* Every session the server accepts runs the script; each has its own
\* session state.
Next == \E s \in Sessions : ScriptStep(s) \/ WorkerStep(s)

Spec == Init /\ [][Next]_vars

\* One browser session only: the single-worker configuration.
NextSingle == ScriptStep(1) \/ WorkerStep(1)

SpecSingle == Init /\ [][NextSingle]_vars

\* The worker thread is scheduled by the operating system and every task
\* invocation returns or raises: the worker's next step is eventually taken.
FairSingle == SpecSingle /\ WF_vars(WorkerStep(1))

\* One session, and callers that use get_job and update_job_status directly:
\* get_job with the id of a stored row or an unknown id, update_job_status
\* with an unknown id.
NextApi ==
    \/ NextSingle
    \/ \E id \in {jobs[i].id : i \in DOMAIN jobs} \cup UnknownIds : GetJob(id)
    \/ \E id \in UnknownIds, res \in {PyNone, DictX1} :
          UpdateJobStatus(id, "done", res)

SpecApi == Init /\ [][NextApi]_vars

\* One session whose database statements in the worker may raise.
NextStore == NextSingle \/ WorkerStoreFails(1)

\* The worker thread is scheduled: its next statement is eventually executed,
\* whether it succeeds or raises.
FairStore ==
    Init /\ [][NextStore]_vars /\ WF_vars(WorkerStep(1) \/ WorkerStoreFails(1))

\* One session, failing statements, and crashes of the server process.
NextCrash == NextStore \/ Crash

SpecCrash == Init /\ [][NextCrash]_vars

\* ------------------------------------------------------------ properties

Terminal == {"done", "failed"}

\* The row holding job `id` (ids are unique).
RowOf(rows, id) == rows[CHOOSE i \in DOMAIN rows : rows[i].id = id]

Stored(id) == \E i \in DOMAIN jobs : jobs[i].id = id

\* The stored status of job `id`, "absent" while no row holds it.
StatusOf(id) == IF Stored(id) THEN RowOf(jobs, id).status ELSE "absent"

\* The task key names a module that exposes run_task or run.
HasTask(task_key) ==
    /\ TaskModule(task_key).exists
    /\ \/ TaskModule(task_key).run_task # "absent"
       \/ TaskModule(task_key).run # "absent"

\* C1: with one worker loop, no job receives the 'running' write of a claim
\* more than once, wherever enqueue calls fall between the worker's steps.
C1_ClaimExclusivity ==
    \A id \in DOMAIN running_writes : running_writes[id] <= 1

\* At least two jobs are stored and each has been claimed exactly once and
\* processed to the end.
C1_Witness ==
    /\ Len(jobs) >= 2
    /\ \A i \in DOMAIN jobs :
          running_writes[jobs[i].id] = 1 /\ jobs[i].status \in Terminal

\* C2: FIFO claiming: no job is pending while a job of strictly greater
\* created_at has already been claimed (so the claims of a worker are in
\* non-decreasing created_at order, whatever the interleaving of enqueues).
C2_FifoClaiming ==
    \A i, k \in DOMAIN jobs :
        (jobs[i].status # "queued" /\ jobs[k].status = "queued")
            => ~TextLess(jobs[k].created_at, jobs[i].created_at)

\* C3: the stored result is present exactly when the status is done or
\* failed, whatever the task returned.
C3_ResultIffTerminal ==
    \A i \in DOMAIN jobs :
        (jobs[i].result # SqlNull) <=> (jobs[i].status \in Terminal)

\* C4: every status change of a job is queued->running, running->done or
\* running->failed; a done or failed job never changes status again.
C4_StatusTransitions ==
    [][\A i \in DOMAIN jobs :
          jobs'[i].status # jobs[i].status
              => <<jobs[i].status, jobs'[i].status>> \in
                    {<<"queued", "running">>, <<"running", "done">>,
                     <<"running", "failed">>}]_vars

C6_TaskErrorHandled ==
    /\ [][\A s \in Sessions :
             (wpc[s] = "write_failed" /\ wpc'[s] # "write_failed")
                 => /\ RowOf(jobs, job[s].id).status = "running"
                    /\ RowOf(jobs', job[s].id).status = "failed"
                    /\ RowOf(jobs', job[s].id).result # SqlNull
                    /\ JsonLoads(RowOf(jobs', job[s].id).result)
                          = ErrorDict(exc[s][1])
                    /\ wpc'[s] = "loop"]_vars
    /\ \A id \in 1..MaxJobs :
          (wpc[1] = "write_failed" /\ StatusOf(id) = "queued")
            ~> (StatusOf(id) \in Terminal \/ worker_stop_event[1] = "set")

\* The division-by-zero job is failed with the error recorded, and the job
\* enqueued after it has been processed by the same, still running, loop.
C6_Witness ==
    \E i, k \in DOMAIN jobs :
        /\ i < k
        /\ jobs[i].task_key = "div_zero"
        /\ jobs[i].status = "failed"
        /\ JsonLoads(jobs[i].result) = ErrorDict("division by zero")
        /\ running_writes[jobs[k].id] = 1
        /\ jobs[k].status \in Terminal
        /\ wpc[1] = "loop"

\* C7: a job whose task_key resolves to no executable task (no module, or a
\* module without run_task and run) never ends in status done.
C7_NoTaskNeverDone ==
    \A i \in DOMAIN jobs :
        ~HasTask(jobs[i].task_key) => jobs[i].status # "done"

\* C8: when the task invocation returned value v, the worker's write ends
\* with the job done and the stored result equal to v.
C8_DoneStoresResult ==
    [][\A s \in Sessions :
          (wpc[s] = "write_done" /\ wpc'[s] # "write_done")
              => /\ RowOf(jobs', job[s].id).status = "done"
                 /\ RowOf(jobs', job[s].id).result # SqlNull
                 /\ JsonLoads(RowOf(jobs', job[s].id).result) = result[s]]_vars

\* C9: at most one worker loop is ever started, however many script runs and
\* sessions there are.
C9_OneWorkerLoop == started <= 1

\* C10: once the stop event is set the worker loop ends; a job running when
\* the event is set becomes done or failed, every job the loop claimed is
\* done or failed (none is left running) when the loop has ended, no new
\* iteration starts once the loop test has seen the event, and the ended
\* loop claims nothing more.
C10_StopExits ==
    /\ (worker_stop_event[1] = "set") ~> (wpc[1] = "exited")
    /\ \A id \in 1..MaxJobs :
          (worker_stop_event[1] = "set" /\ StatusOf(id) = "running")
            ~> (StatusOf(id) \in Terminal)
    /\ [](wpc[1] = "exited"
            => \A i \in DOMAIN jobs :
                  /\ jobs[i].status # "running"
                  /\ running_writes[jobs[i].id] > 0
                        => jobs[i].status \in Terminal)
    /\ [][/\ (worker_stop_event[1] = "set" /\ wpc[1] = "loop")
                => wpc'[1] \in {"loop", "exited"}
          /\ wpc[1] = "exited"
                => (wpc'[1] = "exited" /\ running_writes' = running_writes)
         ]_vars

\* The stop event is set while the worker is inside a task invocation, with
\* another job still queued behind the running one.
C10_Witness ==
    /\ worker_stop_event[1] = "set"
    /\ wpc[1] = "invoke"
    /\ RowOf(jobs, job[1].id).status = "running"
    /\ \E i \in DOMAIN jobs : jobs[i].status = "queued"

\* C11: enqueue_job adds exactly one row, with an id no row holds, status
\* queued, the task_key and payload of the call, no result and
\* created_at = updated_at; the dictionary it returns carries the id and the
\* status of that row; it changes no existing row; and it can always proceed,
\* for every task key (registered or not) and wherever the worker is.
C11_Enqueue ==
    /\ [][\A s \in Sessions :
            (spc[s] = "insert" /\ spc'[s] = "idle")
              => /\ Len(jobs') = Len(jobs) + 1
                 /\ \A i \in DOMAIN jobs :
                       jobs'[i] = jobs[i] /\ jobs[i].id # jobs'[Len(jobs')].id
                 /\ jobs'[Len(jobs')].status = "queued"
                 /\ jobs'[Len(jobs')].task_key = enq[s].task_key
                 /\ JsonLoads(jobs'[Len(jobs')].payload) = enq[s].payload
                 /\ jobs'[Len(jobs')].result = SqlNull
                 /\ jobs'[Len(jobs')].created_at = jobs'[Len(jobs')].updated_at
                 /\ Handle(s).id = jobs'[Len(jobs')].id
                 /\ Handle(s).status = jobs'[Len(jobs')].status]_vars
    /\ [](spc[1] = "insert" => ENABLED EnqueueInsert(1))
    /\ []((spc[1] = "idle" /\ next_uuid <= MaxJobs)
            => \A r \in Requests : ENABLED EnqueueBegin(1, r[1], r[2]))

\* A job whose task key names no module is stored as queued while the worker
\* is inside the task invocation of an earlier job.
C11_Witness ==
    \E i, k \in DOMAIN jobs :
        /\ i < k
        /\ jobs[i].status = "running"
        /\ wpc[1] = "invoke"
        /\ jobs[k].task_key = "missing_task"
        /\ jobs[k].status = "queued"
        /\ jobs[k].result = SqlNull

\* C12: no step (a status write of the worker, the insert of another job, a
\* lookup, a status write for an unknown id) removes a row or changes the
\* id, task_key, payload or created_at of a stored row.
C12_IdentityImmutable ==
    [][/\ Len(jobs') >= Len(jobs)
       /\ \A i \in DOMAIN jobs :
             /\ jobs'[i].id = jobs[i].id
             /\ jobs'[i].task_key = jobs[i].task_key
             /\ jobs'[i].payload = jobs[i].payload
             /\ jobs'[i].created_at = jobs[i].created_at]_vars

\* The first job has been claimed and finished at a later time than it was
\* created, a second job was enqueued after it, and a lookup has returned.
C12_Witness ==
    /\ Len(jobs) = 2
    /\ jobs[1].status = "done"
    /\ jobs[1].result # SqlNull
    /\ jobs[1].updated_at # jobs[1].created_at
    /\ api.op = "get_job"
    /\ api.job_id = jobs[1].id

\* A worker thread is between its 'running' write for job `id` and its
\* 'done' or 'failed' write.
Held(id) ==
    \E s \in Sessions :
        wpc[s] \in {"invoke", "write_done", "write_failed"} /\ job[s].id = id

\* C13: the crash of the process changes no row, so a job that was running
\* stays running; and a running job that no live worker thread holds (every
\* running job after a crash) is never changed again: no later step writes
\* to its row, claims it or invokes its task.
C13_CrashLeavesRunning ==
    [][/\ (wpc[1] # "none" /\ wpc'[1] = "none") => jobs' = jobs
       /\ \A i \in DOMAIN jobs :
             (jobs[i].status = "running" /\ ~Held(jobs[i].id))
                 => /\ jobs'[i] = jobs[i]
                    /\ ~Held(jobs[i].id)'
                    /\ running_writes'[jobs[i].id] = running_writes[jobs[i].id]
                    /\ invoked'[jobs[i].id] = invoked[jobs[i].id]]_vars

\* No statement has failed; the first job is still running although no
\* thread holds it, and the worker loop started after the restart has
\* processed the job enqueued after it and is polling again.
C13_Witness ==
    /\ store_failures = 0
    /\ started = 2
    /\ Len(jobs) = 2
    /\ jobs[1].status = "running"
    /\ ~Held(jobs[1].id)
    /\ running_writes[jobs[1].id] = 1
    /\ jobs[2].status \in Terminal
    /\ running_writes[jobs[2].id] = 1
    /\ wpc[1] = "loop"

\* C14: a database statement that raises inside a worker iteration does not
\* end the loop: the thread sleeps one poll interval and is back at the loop
\* test, no row has changed, and every queued job is afterwards claimed and
\* its task invoked (unless the stop event is set).
C14_StoreFailureRetries ==
    /\ [][\A s \in Sessions :
            (store_failures' > store_failures /\ wpc[s] # "none")
                => (wpc'[s] = "loop" /\ jobs' = jobs)]_vars
    /\ \A id \in 1..MaxJobs :
          (StatusOf(id) = "queued")
            ~> (invoked[id] > 0 \/ worker_stop_event[1] = "set")

\* C15: a call of get_job or update_job_status with an id that no row holds
\* ends by raising NotFound to its caller, and leaves every row unchanged.
C15_NotFound ==
    /\ [](api.job_id \in UnknownIds => api.raised = "NotFound")
    /\ [][api'.job_id \in UnknownIds => jobs' = jobs]_vars

\* C16: get_job is read-only and idempotent: a call changes no row, and the
\* record it returns is the record a second call for the same id returns in
\* the state the first call leaves.
C16_GetJobIdempotent ==
    [][(api' # api /\ api'.op = "get_job")
          => /\ jobs' = jobs
             /\ api'.raised = ""
             /\ api'.value = get_job(jobs', api'.job_id)]_vars

\* A lookup has returned the record of a job that is running, with a second
\* job queued behind it.
C16_Witness ==
    /\ api.op = "get_job"
    /\ Stored(api.job_id)
    /\ ~api.value.is_none
    /\ api.value.dict = RowOf(jobs, api.job_id)
    /\ api.value.dict.status = "running"
    /\ \E i \in DOMAIN jobs : jobs[i].status = "queued"

C18_ClaimFromPending ==
    [][\A s \in Sessions :
          (wpc[s] = "claim" /\ wpc'[s] = "invoke")
              => RowOf(jobs, job[s].id).status = "queued"]_vars

\* C19: with one worker loop, over enqueue calls, worker iterations, failing
\* statements and a crash with restart, the task of each job is invoked at
\* most once, and only while the stored status of the job is 'running'.
C19_AtMostOnce ==
    /\ [](\A id \in DOMAIN invoked : invoked[id] <= 1)
    /\ [][\A id \in DOMAIN invoked :
             invoked'[id] # invoked[id]
                 => (StatusOf(id) = "running" /\ StatusOf(id)' = "running")]_vars

\* After a failed statement and a restart, both jobs have been invoked
\* once: the first was running when the process died and is running still,
\* the second was processed by the loop started after the restart.
C19_Witness ==
    /\ store_failures > 0
    /\ started = 2
    /\ Len(jobs) = 2
    /\ \A i \in DOMAIN jobs : invoked[jobs[i].id] = 1
    /\ jobs[1].status = "running"
    /\ jobs[2].status \in Terminal

\* C20: while the worker thread is scheduled, the process does not crash and
\* the stop event is not set, every stored job eventually is done or failed,
\* also when statements of the worker fail a bounded number of times: a
\* running job is in the hands of the worker thread (which goes on to write
\* done or failed), and every stored job leads to done or failed.
C20_Progress ==
    /\ [](\A i \in DOMAIN jobs :
             jobs[i].status = "running" => Held(jobs[i].id))
    /\ \A id \in 1..MaxJobs :
          Stored(id)
            ~> (StatusOf(id) \in Terminal \/ worker_stop_event[1] = "set")

\* C21: once the worker loop of the session has ended after the stop event
\* was set, no script run of the session starts a thread again or clears the
\* event, and, there being no other worker, every queued job stays queued:
\* the jobs queued at that time and those inserted afterwards.
C21_StoppedForGood ==
    [][wpc[1] = "exited"
          => /\ wpc'[1] = "exited"
             /\ worker_thread'[1]
             /\ worker_stop_event'[1] = "set"
             /\ started' = started
             /\ \A i \in DOMAIN jobs :
                   jobs[i].status = "queued" => jobs'[i] = jobs[i]
             /\ \A i \in DOMAIN jobs' \ DOMAIN jobs :
                   jobs'[i].status = "queued"]_vars

\* The loop has ended with one job processed; a job that was queued when it
\* ended or was enqueued afterwards is queued, no thread having touched it,
\* and the session's script is between two runs.
C21_Witness ==
    /\ wpc[1] = "exited"
    /\ worker_stop_event[1] = "set"
    /\ spc[1] = "idle"
    /\ Len(jobs) = 2
    /\ jobs[1].status \in Terminal
    /\ jobs[2].status = "queued"
    /\ running_writes[jobs[2].id] = 0

====
